---- MODULE Spec2Model ----
(***************************************************************************)
(* Model of src/naive.rs: the D-ary spatial tree DNode and DNode::insert,   *)
(* with the DefaultVector containment test it relies on.                    *)
(*                                                                          *)
(* A call of insert is modelled frame by frame: `stack` is the chain of     *)
(* active insert frames, each frame is either at the outer match            *)
(* (at = "match") or inside the `for c in self_childs` loop (at = "loop",   *)
(* i = index of the next child to visit).                                   *)
(***************************************************************************)
EXTENDS Integers, Sequences, FiniteSets, TLC

\* Coordinates of the points stored in trees range over 0..MaxCoord.
MaxCoord == 1
\* The finite f64 values are 0..MaxFloat; a result above MaxFloat overflows
\* to infinity.
MaxFloat == 2
\* insert is only called on trees of depth <= MaxDepth.
MaxDepth == 3
\* const D: usize = 2 (number of children of a Node).
D == 2

VARIABLES
    tree,   \* the root DNode that insert is called on (self of the outer call)
    arg,    \* n, the argument of the current / last call
    pre,    \* value of tree when the current / last call started
    stack,  \* active insert frames, outermost first
    pc,     \* "idle" | "running" | "returned" | "panicked"
    calls,  \* paths of the nodes insert was invoked on during this call, in order
    wf,     \* every Leaf handed to insert so far had its position within its area
    first,  \* the first Leaf handed to insert (None while there was none)
    vec     \* the DefaultVector operation under way: operands, operator, result

vars == <<tree, arg, pre, stack, pc, calls, wf, first, vec>>

----------------------------------------------------------------------------
\* DefaultVector<N>: a point is a tuple of coordinates (axis i of the code is
\* index i+1 here).

Coord == 0 .. MaxCoord

Points == {<<x>> : x \in Coord}

\* f64: the finite values 0..MaxFloat, then f64::INFINITY and f64::NAN, which
\* are written as the two integers after MaxFloat.
Infinity == MaxFloat + 1

NaN == MaxFloat + 2

Floats == (0 .. MaxFloat) \cup {Infinity, NaN}

\* a <= b on f64: false when either side is NaN.
FLe(a, b) == a # NaN /\ b # NaN /\ a <= b

\* a == b on f64: NaN is not equal to anything, itself included.
FEq(a, b) == a # NaN /\ b # NaN /\ a = b

\* f64::min: if one argument is NaN the other is returned.
FMin(a, b) ==
    IF a = NaN THEN b
    ELSE IF b = NaN THEN a
    ELSE IF a <= b THEN a ELSE b

\* f64::max: if one argument is NaN the other is returned.
FMax(a, b) ==
    IF a = NaN THEN b
    ELSE IF b = NaN THEN a
    ELSE IF a >= b THEN a ELSE b

\* Variant of AxisWithin: the corners are taken to be ordered (low, high).
AxisWithinOrdered(p, area, i) ==
    /\ FLe(area[1][i], p[i])
    /\ FLe(p[i], area[2][i])

\* One iteration of the loop of within: does axis i satisfy the interval test?
AxisWithin(p, area, i) ==
    /\ FLe(FMin(area[1][i], area[2][i]), p[i])
    /\ FLe(p[i], FMax(area[1][i], area[2][i]))

\* The loop of within from axis i on, with its early `return false`.
RECURSIVE WithinFrom(_, _, _)
WithinFrom(p, area, i) ==
    IF i > Len(p) THEN TRUE
    ELSE IF ~AxisWithin(p, area, i) THEN FALSE
    ELSE WithinFrom(p, area, i + 1)

Within(p, area) == WithinFrom(p, area, 1)

----------------------------------------------------------------------------
\* enum DNode { None, Node {..}, Leaf {..} }

ChildIdx == 0 .. (D - 1)

None == [kind |-> "None"]

Leaf(area, position, metadata, data) ==
    [kind |-> "Leaf", area |-> area, position |-> position,
     metadata |-> metadata, data |-> data]

Node(area, metadata, data, childs) ==
    [kind |-> "Node", area |-> area, metadata |-> metadata,
     data |-> data, childs |-> childs]

\* #[derive(Clone)] on DNode: a field-by-field deep copy.
RECURSIVE Clone(_)
Clone(t) ==
    CASE t.kind = "None" -> None
      [] t.kind = "Leaf" -> Leaf(t.area, t.position, t.metadata, t.data)
      [] t.kind = "Node" ->
            Node(t.area, t.metadata, t.data,
                 [i \in ChildIdx |-> Clone(t.childs[i])])

\* The node reached from t by following the child indices of path.
RECURSIVE SubTree(_, _)
SubTree(t, path) ==
    IF path = <<>> THEN t
    ELSE SubTree(t.childs[Head(path)], Tail(path))

\* t with the node at path overwritten by new (`*self = new` on that node).
RECURSIVE ReplaceAt(_, _, _)
ReplaceAt(t, path, new) ==
    IF path = <<>> THEN new
    ELSE [t EXCEPT !.childs[Head(path)] = ReplaceAt(@, Tail(path), new)]

SetMax(S) == CHOOSE x \in S : \A y \in S : y <= x

\* Number of levels of t: a None or Leaf is one level.
RECURSIVE Depth(_)
Depth(t) ==
    IF t.kind = "Node"
    THEN 1 + SetMax({Depth(t.childs[i]) : i \in ChildIdx})
    ELSE 1

\* Paths of all nodes of t.
RECURSIVE Paths(_)
Paths(t) ==
    IF t.kind = "Node"
    THEN {<<>>} \cup UNION {{<<i>> \o p : p \in Paths(t.childs[i])} : i \in ChildIdx}
    ELSE {<<>>}

----------------------------------------------------------------------------
\* impl Add, impl Mul<f64> for DefaultVector<N>.

\* DefaultVector::<2> of the tests: the vector operations are run on N axes.
N == 2

\* a + b on f64.
FAdd(a, b) ==
    IF a = NaN \/ b = NaN THEN NaN
    ELSE IF a = Infinity \/ b = Infinity THEN Infinity
    ELSE IF a + b > MaxFloat THEN Infinity ELSE a + b

\* a * b on f64 (0 * infinity is NaN).
FMul(a, b) ==
    IF a = NaN \/ b = NaN THEN NaN
    ELSE IF a = Infinity \/ b = Infinity
         THEN (IF a = 0 \/ b = 0 THEN NaN ELSE Infinity)
    ELSE IF a * b > MaxFloat THEN Infinity ELSE a * b

\* Variant of VecAdd: the right operand is read at axis 0 for every axis.
VecAddFirstAxis(self, rhs) == [i \in DOMAIN self |-> FAdd(self[i], rhs[1])]

\* Self(std::array::from_fn(|i| self.0[i] + rhs.0[i]))
VecAdd(self, rhs) == [i \in DOMAIN self |-> FAdd(self[i], rhs[i])]

\* Self(std::array::from_fn(|i| self.0[i] * rhs))
VecMul(self, rhs) == [i \in DOMAIN self |-> FMul(self[i], rhs)]

\* The values of DefaultVector<N>.
Vectors == [1 .. N -> Floats]

\* No vector operation is under way.
NoVec == [op |-> "none"]

----------------------------------------------------------------------------
\* Values the callers build.  U and V are distinct opaque types.

\* Regions: degenerate boxes (p, p), as the test's leaf() builds, and the box
\* spanning the whole coordinate range with its corners in either order.
Areas ==
    {<<p, p>> : p \in Points}
        \cup {<<<<0>>, <<MaxCoord>>>>, <<<<MaxCoord>>, <<0>>>>}

\* A Leaf is well formed when its position lies within its own area.
WellFormed(l) == Within(l.position, l.area)

\* The (metadata, payload) pairs the callers attach to a point.
Payloads == {<<"m0", "d0">>, <<"m1", "d1">>}

\* Leaves handed to insert: any area and position, well formed or not.
ArgLeaves ==
    {Leaf(a, p, x[1], x[2]) : a \in Areas, p \in Points, x \in Payloads}

NoChilds == [i \in ChildIdx |-> None]

\* Non-Leaf values a caller may wrongly hand to insert.
ArgNonLeaves == {None, Node(<<<<0>>, <<MaxCoord>>>>, "m0", "d0", NoChilds)}

Args == ArgLeaves \cup ArgNonLeaves

----------------------------------------------------------------------------
\* The arms of DNode::insert.

\* Variant of PanicsOn: self is matched first and its None arm stores n unchecked.
PanicsOnSelfFirst(self, n) == n.kind # "Leaf" /\ self.kind # "None"

\* Variant of PanicsOn: the unfinished Leaf arm is left as todo!().
PanicsOnTodo(self, n) == n.kind # "Leaf" \/ self.kind = "Leaf"

\* Outer `match n`: every n that is not a Leaf reaches `_ => panic!(..)`,
\* whatever self is.
PanicsOn(self, n) == n.kind # "Leaf"

\* Variant of NoneArm: the stored region is shrunk to the point itself.
NoneArmPointArea(self, n) ==
    Leaf(<<n.position, n.position>>, n.position, n.metadata, n.data)

\* Variant of NoneArm: the first point is stored one level down, under a new Node.
NoneArmBranch(self, n) ==
    Node(n.area, n.metadata, n.data,
         [i \in ChildIdx |-> IF i = 0 THEN Clone(n) ELSE None])

\* DNode::None => *self = n.clone()
NoneArm(self, n) == Clone(n)

\* Variant of LeafArm: metadata and payload are taken from n instead of self.
LeafArmFromNew(self, n) ==
    Node(self.area, n.metadata, n.data,
         [i \in ChildIdx |-> IF i = 0 THEN Clone(self) ELSE None])

\* Variant of LeafArm: child 0 keeps the old region but takes n's position.
LeafArmNewPosition(self, n) ==
    Node(self.area, self.metadata, self.data,
         [i \in ChildIdx |->
             IF i = 0
             THEN Leaf(self.area, n.position, self.metadata, self.data)
             ELSE None])

\* Variant of LeafArm: the old leaf is not copied into child 0.
LeafArmDropsOld(self, n) ==
    Node(self.area, self.metadata, self.data, [i \in ChildIdx |-> None])

\* Variant of LeafArm: the promotion is completed by storing n in child 1.
LeafArmStoresNew(self, n) ==
    Node(self.area, self.metadata, self.data,
         [i \in ChildIdx |->
             IF i = 0 THEN Clone(self) ELSE IF i = 1 THEN Clone(n) ELSE None])

\* DNode::Leaf {..} => *self = DNode::Node { area, metadata, data, childs }
\* with childs[0] = self.clone() and every other child None.
LeafArm(self, n) ==
    Node(self.area, self.metadata, self.data,
         [i \in ChildIdx |-> IF i = 0 THEN Clone(self) ELSE None])

\* Variant of ChildMatches: the containment test is left out.
ChildMatchesAlways(c, n) == TRUE

\* if n_position.within(child_area), for a child c that is a Leaf or a Node.
ChildMatches(c, n) == Within(n.position, c.area)

\* Variant of AfterMatch: the `break` of the TODO comment, first match wins.
AfterMatchBreak(i) == D

\* After c.insert(n) returns the loop goes on with the next child (no break).
AfterMatch(i) == i + 1

----------------------------------------------------------------------------
\* Frames.

Frame(path, at, i) == [path |-> path, at |-> at, i |-> i]

Top == stack[Len(stack)]

\* self of the innermost active frame.
Self == SubTree(tree, Top.path)

\* The innermost frame returns to its caller.
Pop ==
    /\ stack' = SubSeq(stack, 1, Len(stack) - 1)
    /\ pc' = IF Len(stack) = 1 THEN "returned" ELSE "running"

\* The innermost frame moves on to child i of its loop.
Advance(i) ==
    stack' = [stack EXCEPT ![Len(stack)] = Frame(Top.path, "loop", i)]

----------------------------------------------------------------------------
\* Actions.

\* tree.insert(&n) is called.
Call(n) ==
    /\ pc \in {"idle", "returned"}
    /\ Depth(tree) <= MaxDepth
    /\ arg' = n
    /\ pre' = tree
    /\ stack' = <<Frame(<<>>, "match", 0)>>
    /\ calls' = << <<>> >>
    /\ pc' = "running"
    /\ wf' = (wf /\ (n.kind = "Leaf" => WellFormed(n)))
    /\ first' = IF first.kind = "None" /\ n.kind = "Leaf" THEN n ELSE first
    /\ UNCHANGED <<tree, vec>>

\* n is not a Leaf: panic!, the call unwinds.
Panic ==
    /\ pc = "running"
    /\ Top.at = "match"
    /\ PanicsOn(Self, arg)
    /\ pc' = "panicked"
    /\ stack' = <<>>
    /\ UNCHANGED <<tree, arg, pre, calls, wf, first, vec>>

\* self is None: it becomes a copy of n.
InsertNone ==
    /\ pc = "running"
    /\ Top.at = "match"
    /\ ~PanicsOn(Self, arg)
    /\ Self.kind = "None"
    /\ tree' = ReplaceAt(tree, Top.path, NoneArm(Self, arg))
    /\ Pop
    /\ UNCHANGED <<arg, pre, calls, wf, first, vec>>

\* self is a Leaf: promotion to a Node.
Promote ==
    /\ pc = "running"
    /\ Top.at = "match"
    /\ ~PanicsOn(Self, arg)
    /\ Self.kind = "Leaf"
    /\ tree' = ReplaceAt(tree, Top.path, LeafArm(Self, arg))
    /\ Pop
    /\ UNCHANGED <<arg, pre, calls, wf, first, vec>>

\* self is a Node: the loop over self_childs starts.
EnterNode ==
    /\ pc = "running"
    /\ Top.at = "match"
    /\ ~PanicsOn(Self, arg)
    /\ Self.kind = "Node"
    /\ Advance(0)
    /\ UNCHANGED <<tree, arg, pre, pc, calls, wf, first, vec>>

\* Variant of SkipNone: a None child is filled with a copy of n.
SkipNoneFills ==
    /\ pc = "running"
    /\ Top.at = "loop"
    /\ Top.i < D
    /\ Self.childs[Top.i].kind = "None"
    /\ tree' = ReplaceAt(tree, Append(Top.path, Top.i), Clone(arg))
    /\ Advance(Top.i + 1)
    /\ UNCHANGED <<arg, pre, pc, calls, wf, first, vec>>

\* DNode::None => continue
SkipNone ==
    /\ pc = "running"
    /\ Top.at = "loop"
    /\ Top.i < D
    /\ Self.childs[Top.i].kind = "None"
    /\ Advance(Top.i + 1)
    /\ UNCHANGED <<tree, arg, pre, pc, calls, wf, first, vec>>

\* A Leaf or Node child whose area does not contain n's position is passed over.
SkipOutside ==
    /\ pc = "running"
    /\ Top.at = "loop"
    /\ Top.i < D
    /\ Self.childs[Top.i].kind # "None"
    /\ ~ChildMatches(Self.childs[Top.i], arg)
    /\ Advance(Top.i + 1)
    /\ UNCHANGED <<tree, arg, pre, pc, calls, wf, first, vec>>

\* A Leaf or Node child whose area contains n's position: c.insert(n).
Descend ==
    /\ pc = "running"
    /\ Top.at = "loop"
    /\ Top.i < D
    /\ Self.childs[Top.i].kind # "None"
    /\ ChildMatches(Self.childs[Top.i], arg)
    /\ stack' = Append([stack EXCEPT ![Len(stack)] =
                            Frame(Top.path, "loop", AfterMatch(Top.i))],
                       Frame(Append(Top.path, Top.i), "match", 0))
    /\ calls' = Append(calls, Append(Top.path, Top.i))
    /\ UNCHANGED <<tree, arg, pre, pc, wf, first, vec>>

\* The loop is over: the frame returns.
LoopEnd ==
    /\ pc = "running"
    /\ Top.at = "loop"
    /\ Top.i >= D
    /\ Pop
    /\ UNCHANGED <<tree, arg, pre, calls, wf, first, vec>>

\* The steps of a call in progress.
Step ==
    \/ Panic
    \/ InsertNone
    \/ Promote
    \/ EnterNode
    \/ SkipNone
    \/ SkipOutside
    \/ Descend
    \/ LoopEnd

Next ==
    \/ \E n \in Args : Call(n)
    \/ Step

\* let mut tree = DNode::None, then a sequence of insert calls.
Init ==
    /\ tree = None
    /\ arg = None
    /\ pre = None
    /\ stack = <<>>
    /\ pc = "idle"
    /\ calls = <<>>
    /\ wf = TRUE
    /\ first = None
    /\ vec = NoVec

Spec == Init /\ [][Next]_vars

----------------------------------------------------------------------------
\* Observations of a tree (what a test reads by pattern matching).

\* Paths of the Leaf nodes of t.
LeafPaths(t) == {p \in Paths(t) : SubTree(t, p).kind = "Leaf"}

\* The Leaf records held anywhere in t.
LeavesOf(t) == {SubTree(t, p) : p \in LeafPaths(t)}

\* check_leaf_areas of the test: every Leaf's position is within its own area.
CheckLeafAreas(t) == \A l \in LeavesOf(t) : Within(l.position, l.area)

\* Number of nodes of t, None children included.
NodeCount(t) == Cardinality(Paths(t))

----------------------------------------------------------------------------
\* Trees built directly from the enum's constructors instead of by insert:
\* sibling regions may overlap, any child slot may be occupied.

\* Leaves already stored, their position within their region or not.
TreeLeaves == {Leaf(a, p, "m0", "d0") : a \in Areas, p \in Points}

\* A Node child: its own children are None, but for child 0, which may hold a
\* Leaf of a degenerate region.
TreeInnerNodes ==
    {Node(a, "m1", "d1", [i \in ChildIdx |-> IF i = 0 THEN g ELSE None]) :
        a \in Areas,
        g \in {None} \cup {Leaf(<<p, p>>, p, "m0", "d0") : p \in Points}}

TreeChildren == {None} \cup TreeLeaves \cup TreeInnerNodes

AnyTrees ==
    {None} \cup TreeLeaves
        \cup {Node(<<<<0>>, <<MaxCoord>>>>, "m1", "d1", c) :
                 c \in [ChildIdx -> TreeChildren]}

\* insert is called on a tree some other code has built.
InitAny ==
    /\ tree \in AnyTrees
    /\ arg = None
    /\ pre = tree
    /\ stack = <<>>
    /\ pc = "idle"
    /\ calls = <<>>
    /\ wf = CheckLeafAreas(tree)
    /\ first = None
    /\ vec = NoVec

\* What is then inserted: leaves as the test's leaf() builds them (region
\* (p, p) around the point), and None for the misuse of the call.
ArgsAny == {Leaf(<<p, p>>, p, "m1", "d1") : p \in Points} \cup {None}

NextAny ==
    \/ \E n \in ArgsAny : Call(n)
    \/ Step

SpecAny == InitAny /\ [][NextAny]_vars

\* A call in progress keeps running: insert is synchronous straight-line code.
FairSpecAny == SpecAny /\ WF_vars(Step)

----------------------------------------------------------------------------
\* The DefaultVector operations called on their own, as test_vector_impl does.

\* The calls: p.within((a, b)), p + q, p * k, with their operands.
VecCalls ==
    {[op |-> "within", st |-> "called", p |-> p, a |-> a, b |-> b] :
        p \in Vectors, a \in Vectors, b \in Vectors}
    \cup {[op |-> "add", st |-> "called", p |-> p, q |-> q] :
        p \in Vectors, q \in Vectors}
    \cup {[op |-> "mul", st |-> "called", p |-> p, k |-> k] :
        p \in Vectors, k \in Floats}

\* p.within((a, b)) returns.
DoWithin ==
    /\ vec.op = "within"
    /\ vec.st = "called"
    /\ vec' = [op |-> "within", st |-> "returned", p |-> vec.p, a |-> vec.a,
               b |-> vec.b, out |-> Within(vec.p, <<vec.a, vec.b>>)]
    /\ UNCHANGED <<tree, arg, pre, stack, pc, calls, wf, first>>

\* p + q returns.
DoAdd ==
    /\ vec.op = "add"
    /\ vec.st = "called"
    /\ vec' = [op |-> "add", st |-> "returned", p |-> vec.p, q |-> vec.q,
               out |-> VecAdd(vec.p, vec.q)]
    /\ UNCHANGED <<tree, arg, pre, stack, pc, calls, wf, first>>

\* p * k returns.
DoMul ==
    /\ vec.op = "mul"
    /\ vec.st = "called"
    /\ vec' = [op |-> "mul", st |-> "returned", p |-> vec.p, k |-> vec.k,
               out |-> VecMul(vec.p, vec.k)]
    /\ UNCHANGED <<tree, arg, pre, stack, pc, calls, wf, first>>

NextVec ==
    \/ DoWithin
    \/ DoAdd
    \/ DoMul

InitVec ==
    /\ tree = None
    /\ arg = None
    /\ pre = None
    /\ stack = <<>>
    /\ pc = "idle"
    /\ calls = <<>>
    /\ wf = TRUE
    /\ first = None
    /\ vec \in VecCalls

SpecVec == InitVec /\ [][NextVec]_vars

----------------------------------------------------------------------------
\* Vocabulary of the properties.

\* Paths on which insert ran during the current / last call and found, in the
\* tree as it was when the call started, a node of the given variant.
CalledOn(kind) ==
    {calls[k] : k \in {j \in 1 .. Len(calls) : SubTree(pre, calls[j]).kind = kind}}

\* The calls made by the frame of path p on its children, in the order made.
IsChildOf(q, p) == Len(q) = Len(p) + 1 /\ SubSeq(q, 1, Len(p)) = p

ChildCalls(p) == SelectSeq(calls, LAMBDA q : IsChildOf(q, p))

\* Children of the Node at p (as the call found it) that are not None and whose
\* region contains the inserted position.
MatchingChildren(p) ==
    {i \in ChildIdx :
        /\ SubTree(pre, p).childs[i].kind # "None"
        /\ Within(arg.position, SubTree(pre, p).childs[i].area)}

\* Empty -> Leaf -> Branching as 0 -> 1 -> 2.
Rank(t) == CASE t.kind = "None" -> 0 [] t.kind = "Leaf" -> 1 [] t.kind = "Node" -> 2

\* Every node position of t1 exists in t2 with a variant that is the same or
\* further along, and an Empty position of t1 is at most a Leaf in t2.
VariantsForward(t1, t2) ==
    \A p \in Paths(t1) :
        /\ p \in Paths(t2)
        /\ Rank(SubTree(t2, p)) >= Rank(SubTree(t1, p))
        /\ Rank(SubTree(t1, p)) = 0 => Rank(SubTree(t2, p)) <= 1

\* How many Leaf nodes of t hold exactly the record l.
Copies(t, l) == Cardinality({p \in LeafPaths(t) : SubTree(t, p) = l})

----------------------------------------------------------------------------
\* C1: insert on an Empty node with a Leaf argument replaces the node by an
\* exact copy of that Leaf (region, position, metadata, payload), so the
\* stored position is the inserted point, and it makes no recursive call.
C1_InsertIntoEmpty ==
    pc = "returned" =>
        \A p \in CalledOn("None") :
            /\ SubTree(tree, p).kind = "Leaf"
            /\ SubTree(tree, p).area = arg.area
            /\ SubTree(tree, p).position = arg.position
            /\ SubTree(tree, p).metadata = arg.metadata
            /\ SubTree(tree, p).data = arg.data
            /\ ChildCalls(p) = <<>>

C1_Witness ==
    /\ pc = "returned"
    /\ pre.kind = "None"
    /\ tree.kind = "Leaf"
    /\ arg.area[1] # arg.area[2]

\* C2: insert on a Leaf node (promotion) replaces it by a Node with the old
\* leaf's region, metadata and payload, whose child 0 is an exact copy of the
\* leaf as it was before the call and whose children 1..D-1 are None.
C2_Promotion ==
    pc = "returned" =>
        \A p \in CalledOn("Leaf") :
            /\ SubTree(tree, p).kind = "Node"
            /\ SubTree(tree, p).area = SubTree(pre, p).area
            /\ SubTree(tree, p).metadata = SubTree(pre, p).metadata
            /\ SubTree(tree, p).data = SubTree(pre, p).data
            /\ SubTree(tree, p).childs[0] = SubTree(pre, p)
            /\ \A i \in ChildIdx \ {0} : SubTree(tree, p).childs[i].kind = "None"

C2_Witness ==
    /\ pc = "returned"
    /\ \E p \in CalledOn("Leaf") :
        /\ p # <<>>
        /\ SubTree(pre, p).metadata # arg.metadata
        /\ SubTree(pre, p).data # arg.data
        /\ SubTree(tree, p).kind = "Node"

\* C3: insert with an argument that is not a Leaf (None or Node) panics,
\* whatever the target tree is (None, Leaf or Node), and the panic comes
\* before any mutation: the tree is as it was before the call.
C3_NonLeafAborts ==
    /\ [](arg.kind # "Leaf" /\ pc # "idle" =>
            /\ tree = pre
            /\ pc \in {"running", "panicked"}
            /\ pc = "running" => ENABLED Panic)
    /\ [][arg.kind # "Leaf" /\ pc = "running" =>
            pc' = "panicked" /\ tree' = pre]_vars

C3_Witness ==
    /\ pc = "panicked"
    /\ arg.kind = "Node"
    /\ pre.kind = "Node"
    /\ tree = pre

\* C4: starting from an Empty tree, as long as every inserted Leaf has its
\* position within its own region, every Leaf anywhere in the tree has its
\* stored position within its own stored region.
C4_LeafWithinOwnArea == wf => CheckLeafAreas(tree)

C4_Witness ==
    /\ wf
    /\ pc = "returned"
    /\ Depth(tree) >= 3
    /\ \E l \in LeavesOf(tree) : l.position # arg.position

\* C5: across any sequence of insert calls the variant of every node position
\* only moves forward along Empty -> Leaf -> Branching: a Node never becomes
\* a Leaf or None, a Leaf never becomes None, and a None never becomes a Node
\* without having been a Leaf, neither within one step nor over a whole call.
C5_VariantsOnlyForward ==
    /\ [][VariantsForward(tree, tree')]_vars
    /\ [](pc = "returned" => VariantsForward(pre, tree))

C5_Witness ==
    /\ pc = "returned"
    /\ pre.kind = "Node"
    /\ \E p \in Paths(pre) :
        /\ p # <<>>
        /\ SubTree(pre, p).kind = "Leaf"
        /\ SubTree(tree, p).kind = "Node"

\* C6: insert never deletes or merges stored content: every Leaf record of
\* the tree before the call is still in the tree, in at least as many nodes,
\* at every moment of the call and after it, and the number of nodes never
\* decreases.
C6_NothingLost ==
    /\ \A l \in LeavesOf(pre) : Copies(tree, l) >= Copies(pre, l)
    /\ NodeCount(tree) >= NodeCount(pre)

C6_Witness ==
    /\ pc = "returned"
    /\ Cardinality(LeavesOf(pre)) >= 2
    /\ NodeCount(tree) > NodeCount(pre)

\* C7: when insert promotes a Leaf, the point that triggered the promotion is
\* not stored in any child during that call: afterwards the only Leaf of the
\* promoted subtree is child 0 and it holds the point the Leaf held before.
C7_TriggerNotStored ==
    pc = "returned" =>
        \A p \in CalledOn("Leaf") :
            /\ LeafPaths(SubTree(tree, p)) = {<<0>>}
            /\ {l.position : l \in LeavesOf(SubTree(tree, p))}
                   = {SubTree(pre, p).position}

C7_Witness ==
    /\ pc = "returned"
    /\ \E p \in CalledOn("Leaf") :
        /\ arg.position # SubTree(pre, p).position
        /\ arg.position \notin {l.position : l \in LeavesOf(SubTree(tree, p))}

\* C8 (as amended): insert on a Node with a Leaf argument calls insert on its
\* children in ascending index order, on exactly the children that are not
\* None and whose region contains the argument's position, without stopping
\* at the first match; every other child is left as it was, and every
\* matching child that is a Leaf is promoted.  A matching child that is a
\* Node receives the call too but is not necessarily changed by it.
C8_DescentIntoEveryMatch ==
    pc = "returned" =>
        \A p \in CalledOn("Node") :
            LET cc == ChildCalls(p)
                M == MatchingChildren(p)
                idx(k) == cc[k][Len(p) + 1]
            IN  /\ Len(cc) = Cardinality(M)
                /\ {idx(k) : k \in 1 .. Len(cc)} = M
                /\ \A k \in 1 .. (Len(cc) - 1) : idx(k) < idx(k + 1)
                /\ \A i \in ChildIdx \ M :
                       SubTree(tree, Append(p, i)) = SubTree(pre, Append(p, i))
                /\ \A i \in M :
                       SubTree(pre, Append(p, i)).kind = "Leaf" =>
                           SubTree(tree, Append(p, i)).kind = "Node"

C8_Witness ==
    /\ pc = "returned"
    /\ pre.kind = "Node"
    /\ Cardinality(MatchingChildren(<<>>)) = 2
    /\ Len(ChildCalls(<<>>)) = 2
    /\ \E i \in ChildIdx : pre.childs[i].kind = "Node"

\* C8 as stated: in addition, when two children's regions both contain the
\* position, both children are modified.
C8_BothMatchesModified ==
    /\ C8_DescentIntoEveryMatch
    /\ pc = "returned" =>
        \A p \in CalledOn("Node") :
            Cardinality(MatchingChildren(p)) >= 2 =>
                \A i \in MatchingChildren(p) :
                    SubTree(tree, Append(p, i)) # SubTree(pre, Append(p, i))

\* C9 (as amended): insert turns a Leaf below the root into a Node only when
\* the inserted position lies within that Leaf's region; a Leaf at the root
\* is promoted by every insert of a Leaf, wherever the position lies.
C9_PromotionBelowRootNeedsContainment ==
    pc = "returned" =>
        /\ \A p \in Paths(pre) \ {<<>>} :
               (SubTree(pre, p).kind = "Leaf" /\ SubTree(tree, p).kind = "Node")
                   => Within(arg.position, SubTree(pre, p).area)
        /\ pre.kind = "Leaf" => tree.kind = "Node"

C9_Witness ==
    /\ pc = "returned"
    /\ \E p \in Paths(pre) \ {<<>>} :
        /\ SubTree(pre, p).kind = "Leaf"
        /\ SubTree(tree, p).kind = "Node"
        /\ SubTree(pre, p).area[1] = SubTree(pre, p).area[2]

\* C9 as stated: the containment condition holds for the root Leaf as well.
C9_PromotionNeedsContainment ==
    pc = "returned" =>
        \A p \in Paths(pre) :
            (SubTree(pre, p).kind = "Leaf" /\ SubTree(tree, p).kind = "Node")
                => Within(arg.position, SubTree(pre, p).area)

\* C10: for every tree and every Leaf argument insert never panics, the
\* number of nested insert frames never exceeds the depth the tree had when
\* the call started, and the call returns.
C10_TerminatesWithinDepth ==
    /\ [](arg.kind = "Leaf" => pc # "panicked")
    /\ [](Len(stack) <= Depth(pre))
    /\ (pc = "running" /\ arg.kind = "Leaf") ~> (pc = "returned")

C10_Witness ==
    /\ pc = "running"
    /\ arg.kind = "Leaf"
    /\ Len(stack) >= 3
    /\ Len(stack) = Depth(pre)

\* The interval test of one axis, stated over the corners that are numbers:
\* x lies between the least and the greatest of them.
BetweenCorners(x, c1, c2) ==
    LET num == {c1, c2} \ {NaN}
    IN  /\ x # NaN
        /\ \E lo \in num : \E hi \in num :
               /\ \A c \in num : lo <= c /\ c <= hi
               /\ lo <= x
               /\ x <= hi

\* C11: within(p, (a, b)) is true iff on every axis i
\* min(a[i], b[i]) <= p[i] <= max(a[i], b[i]), false as soon as one axis
\* fails, and therefore the same for (a, b) and (b, a).
C11_WithinIsBoxTest ==
    (vec.op = "within" /\ vec.st = "returned") =>
        /\ vec.out = (\A i \in 1 .. N : BetweenCorners(vec.p[i], vec.a[i], vec.b[i]))
        /\ (\E i \in 1 .. N : ~BetweenCorners(vec.p[i], vec.a[i], vec.b[i]))
               => vec.out = FALSE
        /\ vec.out = Within(vec.p, <<vec.b, vec.a>>)

C11_Witness ==
    /\ vec.op = "within"
    /\ vec.st = "returned"
    /\ vec.out = TRUE
    /\ vec.a[1] = 2 /\ vec.b[1] = 0
    /\ vec.a[2] = 0 /\ vec.b[2] = 1
    /\ vec.p = <<1, 1>>

\* p + p and p * 2.0 as the two calls return them, for the operand of the
\* call that has just returned.
Doubled(p) == [sum |-> VecAdd(p, p), scaled |-> VecMul(p, 2)]

\* The call under way is p + p or p * 2.0 and has returned.
DoublingReturned ==
    /\ vec.op \in {"add", "mul"}
    /\ vec.st = "returned"
    /\ vec.op = "add" => vec.q = vec.p
    /\ vec.op = "mul" => vec.k = 2

\* The other way of doubling the operand of the returned call.
OtherDoubling ==
    IF vec.op = "add" THEN Doubled(vec.p).scaled ELSE Doubled(vec.p).sum

\* C12 (as amended): for every point p of every supported dimension that has
\* no NaN coordinate, add(p, p) equals scale(p, 2) on every axis; on an axis
\* where p is NaN both results are NaN (and so compare unequal); neither
\* operation changes its operand.
C12_DoublingExceptNaN ==
    /\ [](DoublingReturned =>
            \A i \in 1 .. N :
                IF vec.p[i] = NaN
                THEN vec.out[i] = NaN /\ OtherDoubling[i] = NaN
                ELSE FEq(vec.out[i], OtherDoubling[i]))
    /\ [][vec.op \in {"add", "mul"} =>
            /\ vec'.p = vec.p
            /\ vec.op = "add" => vec'.q = vec.q]_vars

C12_Witness ==
    /\ DoublingReturned
    /\ vec.op = "add"
    /\ vec.p = <<1, 2>>
    /\ vec.out = <<2, Infinity>>

\* C12 as stated: add(p, p) equals scale(p, 2) on every axis for every p.
C12_DoublingAlways ==
    DoublingReturned =>
        \A i \in 1 .. N : FEq(vec.out[i], OtherDoubling[i])

\* Both corners of region inner lie within region outer.
Contained(inner, outer) == Within(inner[1], outer) /\ Within(inner[2], outer)

\* Regions r1 and r2 share no point: on some axis one ends before the other
\* begins.
Disjoint(r1, r2) ==
    \E i \in DOMAIN r1[1] :
        \/ FMax(r1[1][i], r1[2][i]) < FMin(r2[1][i], r2[2][i])
        \/ FMax(r2[1][i], r2[2][i]) < FMin(r1[1][i], r1[2][i])

\* Paths of the Node nodes of t.
NodePaths(t) == {p \in Paths(t) : SubTree(t, p).kind = "Node"}

\* Indices of the children of Node nd that are not None.
Occupied(nd) == {i \in ChildIdx : nd.childs[i].kind # "None"}

\* C13: in every tree reachable from Empty by Leaf insertions, every
\* non-Empty child of every Node has a region contained within its parent's
\* region and disjoint from the regions of its non-Empty siblings.
C13_ChildRegions ==
    \A p \in NodePaths(tree) :
        LET nd == SubTree(tree, p)
        IN  \A i \in Occupied(nd) :
                /\ Contained(nd.childs[i].area, nd.area)
                /\ \A j \in Occupied(nd) \ {i} :
                       Disjoint(nd.childs[i].area, nd.childs[j].area)

C13_Witness ==
    /\ pc = "returned"
    /\ Depth(tree) >= 3
    /\ tree.area[1] # tree.area[2]
    /\ \A p \in NodePaths(tree) : Occupied(SubTree(tree, p)) # {}

\* C14: after any non-empty sequence of Leaf insertions into an initially
\* Empty tree, the tree holds exactly one Leaf, and it is the first inserted
\* leaf (region, position, metadata, payload); no later point is stored.
C14_OnlyFirstLeafStored ==
    (first.kind = "Leaf" /\ ~(pc = "running" /\ pre.kind = "None")) =>
        /\ Cardinality(LeafPaths(tree)) = 1
        /\ LeavesOf(tree) = {first}

C14_Witness ==
    /\ pc = "returned"
    /\ Depth(tree) >= 3
    /\ arg.kind = "Leaf"
    /\ arg.position # first.position
    /\ pre # tree

\* C15: insert on a Node with a Leaf argument whose position is in the region
\* of none of its non-Empty children leaves the whole subtree, and so the
\* tree, unchanged; and an Empty child of a Node is never turned into a Leaf
\* (it stays Empty through every step of every call).
C15_NoMatchNoChange ==
    /\ [](pc = "returned" =>
            /\ \A p \in CalledOn("Node") :
                   MatchingChildren(p) = {} => SubTree(tree, p) = SubTree(pre, p)
            /\ (pre.kind = "Node" /\ MatchingChildren(<<>>) = {}) => tree = pre)
    /\ [][\A p \in Paths(tree) \ {<<>>} :
            SubTree(tree, p).kind = "None" => SubTree(tree', p).kind = "None"]_vars

C15_Witness ==
    /\ pc = "returned"
    /\ pre.kind = "Node"
    /\ MatchingChildren(<<>>) = {}
    /\ \E i \in ChildIdx : pre.childs[i].kind = "Leaf"
    /\ \E i \in ChildIdx : pre.childs[i].kind = "None"
    /\ tree = pre

\* C16: in every tree reachable from Empty by Leaf insertions, every Node
\* has a non-Empty child 0 and Empty children 1..D-1 (the tree is a single
\* chain), and no insert call increases the depth of the tree by more than
\* one.
C16_SingleChain ==
    /\ \A p \in NodePaths(tree) : Occupied(SubTree(tree, p)) = {0}
    /\ Depth(tree) <= Depth(pre) + 1

C16_Witness ==
    /\ pc = "returned"
    /\ Depth(pre) >= 3
    /\ Depth(tree) = Depth(pre) + 1

\* The region, metadata and payload a node carries itself.
Header(nd) == <<nd.area, nd.metadata, nd.data>>

\* C17: once a node is a Node, no later insert changes its own region,
\* metadata or payload: they stay those of the Leaf it was promoted from,
\* whatever is inserted afterwards.
C17_NodeHeaderFrozen ==
    /\ [][\A p \in NodePaths(tree) :
            /\ SubTree(tree', p).kind = "Node"
            /\ Header(SubTree(tree', p)) = Header(SubTree(tree, p))]_vars
    /\ [][\A p \in LeafPaths(tree) :
            SubTree(tree', p).kind = "Node" =>
                Header(SubTree(tree', p)) = Header(SubTree(tree, p))]_vars

C17_Witness ==
    /\ pc = "returned"
    /\ pre.kind = "Node"
    /\ Depth(tree) > Depth(pre)
    /\ arg.metadata # tree.metadata
    /\ arg.area # tree.area

====
